---- MODULE Spec2Model ----
(***************************************************************************)
(* Rule evaluation and minimal-winning-coalition search of the governing-  *)
(* body viewer (src/governing-body-viewer.js), and the discovery and       *)
(* loading of its configuration files (src/config-discovery.js).           *)
(*                                                                         *)
(* Specifications.  Spec: a caller of findMinimalWinningCoalitions or of   *)
(* evaluateRules.  HelperSpec: a caller of one of the shared helpers.      *)
(* DiscoverySpec: one run of getManifestSlow, step by step between its     *)
(* awaits; DiscoveryFairSpec adds that every request settles.              *)
(* ViewerSpec: a rendered body and the clicks on its groups and rules.     *)
(*                                                                         *)
(* Numbers.  Seat counts, offsets and totals are integers.  A threshold    *)
(* value may be a fraction (0.5), so a resolved threshold is a rational    *)
(* [n, d] with d > 0 and comparisons cross-multiply; for the halves used   *)
(* here IEEE-754 doubles are exact, so this is what the code computes.     *)
(*                                                                         *)
(* JSON values.  A metric value of a group is a number, absent, or the     *)
(* non-numeric JSON value true.  An optional field that the code reads     *)
(* with `x || default` or `typeof x === "number"` is a tagged value; a     *)
(* missing string is "", which `||` treats like a missing one.             *)
(***************************************************************************)
EXTENDS Integers, Sequences, FiniteSets, TLC

VARIABLES
  body,         \* the governing body document
  call,         \* the function the caller calls
  baselineIds,  \* the caller's set of selected group ids
  ruleId,       \* the rule id passed to the search
  returned,     \* TRUE once the call has returned
  results,      \* the array returned by findMinimalWinningCoalitions
  evaluation,   \* the array returned by evaluateRules
  warnings,     \* what the call wrote with console.warn
  currentIds,   \* the search's working copy of the id set, at return
  calls,        \* the arguments of every dfs call of the search, in order
  args,         \* the arguments of a call of a shared helper
  answer,       \* the value that call returned
  pc,           \* the position of getManifestSlow
  manifest,     \* the response to the fetch of the manifest
  fetched,      \* the URLs fetched so far, in order
  entries,      \* the config entries discovered
  fetches,      \* the state of the fetch of each entry
  onDone,       \* the arguments of every onDone call, in order
  selectedIds,  \* the viewer's set of selected group ids
  selectedRuleId, \* the viewer's selected rule id, "" for null
  click,        \* the last click on the viewer
  summary       \* what the last updateCoalitionSummary showed and called

searchVars == <<body, baselineIds, ruleId, results, evaluation, warnings,
                currentIds, calls>>
helperVars == <<args, answer>>
discoveryVars == <<pc, manifest, fetched, entries, fetches, onDone>>
viewerVars == <<selectedIds, selectedRuleId, click, summary>>

vars == <<call, returned, searchVars, helperVars, discoveryVars, viewerVars>>

(* ---------- bounds ---------- *)

\* Largest number of groups in a generated body.
MaxGroups == 3

(* ---------- values ---------- *)

Num(x) == [t |-> "num", n |-> x]
Absent == [t |-> "absent", n |-> 0]
JsTrue == [t |-> "true", n |-> 1]

Rat(n, d) == [n |-> n, d |-> d]
Whole(x) == Rat(x, 1)

\* typeof v === "number"
IsNumber(v) == v.t = "num"

\* `v || 0` followed by arithmetic: absent gives 0, a number itself, and
\* the boolean true is converted to 1 by + and -.
OrZero(v) == IF v.t = "absent" THEN 0 ELSE v.n

SeqToSet(s) == {s[i] : i \in 1..Len(s)}

\* Array.prototype.filter: the elements satisfying P, in order.
RECURSIVE FilterIds(_, _)
FilterIds(gs, ids) ==
  IF gs = <<>> THEN <<>>
  ELSE (IF Head(gs).id \in ids THEN <<Head(gs)>> ELSE <<>>)
       \o FilterIds(Tail(gs), ids)

(* ---------- body accessors ---------- *)

\* body.groups || [], body.metrics || {}, body.rules || []
GroupsOf(b) == IF b.hasGroups THEN b.groups ELSE <<>>
MetricsOf(b) == IF b.hasMetrics THEN b.metrics ELSE <<>>
RulesOf(b) == IF b.hasRules THEN b.rules ELSE <<>>

\* rule.conditions || []
ConditionsOf(rule) == IF rule.hasConditions THEN rule.conditions ELSE <<>>

\* g.metrics && g.metrics[metricId]
MetricValue(g, metricId) ==
  IF metricId \in DOMAIN g.metrics THEN g.metrics[metricId] ELSE Absent

(* ---------- shared helpers ---------- *)

\* getDefaultMetricId ignoring the isDefault flags.
getDefaultMetricId_first(metrics) ==
  IF Len(metrics) = 0 THEN "" ELSE metrics[1].id

getDefaultMetricId(metrics) ==
  IF Len(metrics) = 0 THEN ""
  ELSE IF \E i \in 1..Len(metrics) : metrics[i].isDefault
       THEN LET i == CHOOSE i \in 1..Len(metrics) :
                       /\ metrics[i].isDefault
                       /\ \A j \in 1..(i - 1) : ~metrics[j].isDefault
            IN metrics[i].id
       ELSE metrics[1].id

\* sumMetric whose reducer returns v instead of sum + v.
RECURSIVE sumMetric_last(_, _)
sumMetric_last(groups, metricId) ==
  IF groups = <<>> THEN 0
  ELSE LET v == MetricValue(groups[Len(groups)], metricId)
       IN IF IsNumber(v) THEN v.n
          ELSE sumMetric_last(SubSeq(groups, 1, Len(groups) - 1), metricId)

RECURSIVE sumMetric(_, _)
sumMetric(groups, metricId) ==
  IF groups = <<>> THEN 0
  ELSE LET v == MetricValue(Head(groups), metricId)
       IN (IF IsNumber(v) THEN v.n ELSE 0) + sumMetric(Tail(groups), metricId)

(* ---------- thresholds and comparison ---------- *)

\* ctx.metrics[metricId] || {}
MetricDef(metrics, metricId) ==
  IF \E i \in 1..Len(metrics) : metrics[i].id = metricId
  THEN metrics[CHOOSE i \in 1..Len(metrics) : metrics[i].id = metricId]
  ELSE [id |-> metricId, isDefault |-> FALSE, total |-> Absent]

\* resolveThreshold leaving the offset out of a fraction of the total.
resolveThreshold_noOffset(threshold, ctx) ==
  LET kind == IF threshold.kind = "" THEN "absolute" ELSE threshold.kind
      value == IF threshold.hasValue THEN threshold.value ELSE Rat(0, 1)
      offset == IF IsNumber(threshold.offset) THEN threshold.offset.n ELSE 0
  IN IF kind = "fractionOfTotal"
     THEN LET metricId == IF threshold.metric # "" THEN threshold.metric
                          ELSE ctx.metricId
              def == MetricDef(ctx.metrics, metricId)
              total == IF def.total.t # "absent" THEN def.total.n
                       ELSE sumMetric(ctx.groups, metricId)
          IN Rat(value.n * total, value.d)
     ELSE Rat(value.n + offset * value.d, value.d)

resolveThreshold(threshold, ctx) ==
  LET kind == IF threshold.kind = "" THEN "absolute" ELSE threshold.kind
      value == IF threshold.hasValue THEN threshold.value ELSE Rat(0, 1)
      offset == IF IsNumber(threshold.offset) THEN threshold.offset.n ELSE 0
  IN IF kind = "fractionOfTotal"
     THEN LET metricId == IF threshold.metric # "" THEN threshold.metric
                          ELSE ctx.metricId
              def == MetricDef(ctx.metrics, metricId)
              total == IF def.total.t # "absent" THEN def.total.n
                       ELSE sumMetric(ctx.groups, metricId)
          IN Rat(value.n * total + offset * value.d, value.d)
     ELSE Rat(value.n + offset * value.d, value.d)

SupportedOperators == {">", ">=", "<", "<=", "==", "=", "!="}

\* compareValues with >= compared strictly.
compareValues_strict(operator, a, b) ==
  LET l == a.n * b.d
      r == b.n * a.d
  IN CASE operator \in {">", ">="} -> l > r
       [] operator = "<" -> l < r
       [] operator = "<=" -> l <= r
       [] operator \in {"==", "="} -> l = r
       [] operator = "!=" -> l # r
       [] OTHER -> FALSE

\* compareValues accepting an operator it does not know.
compareValues_permissive(operator, a, b) ==
  LET l == a.n * b.d
      r == b.n * a.d
  IN CASE operator = ">" -> l > r
       [] operator = ">=" -> l >= r
       [] operator = "<" -> l < r
       [] operator = "<=" -> l <= r
       [] operator \in {"==", "="} -> l = r
       [] operator = "!=" -> l # r
       [] OTHER -> TRUE

compareValues(operator, a, b) ==
  LET l == a.n * b.d
      r == b.n * a.d
  IN CASE operator = ">" -> l > r
       [] operator = ">=" -> l >= r
       [] operator = "<" -> l < r
       [] operator = "<=" -> l <= r
       [] operator \in {"==", "="} -> l = r
       [] operator = "!=" -> l # r
       [] OTHER -> FALSE

\* console.warn("Unknown operator:", operator) in the default branch
WarnOperator(w, operator) ==
  IF operator \in SupportedOperators THEN w
  ELSE Append(w, "Unknown operator")

(* ---------- rule evaluation ---------- *)

evaluateCountGroupsCondition(condition, ctx) ==
  LET operator == IF condition.operator = "" THEN ">=" ELSE condition.operator
      value == IF condition.value.t # "absent" THEN condition.value.n ELSE 0
      count == Len(ctx.coalitionGroups)
  IN compareValues(operator, Whole(count), Whole(value))

evaluateSumCondition(condition, ctx) ==
  LET metricId == condition.metric
      operator == IF condition.operator = "" THEN ">=" ELSE condition.operator
      coalitionSum == sumMetric(ctx.coalitionGroups, metricId)
      thresholdValue == resolveThreshold(condition.threshold,
                          [metrics |-> ctx.metrics, groups |-> ctx.groups,
                           metricId |-> metricId])
  IN compareValues(operator, Whole(coalitionSum), thresholdValue)

\* evaluateCondition passing a condition of unknown type.
evaluateCondition_permissive(condition, ctx) ==
  CASE condition.type = "sum" -> evaluateSumCondition(condition, ctx)
    [] condition.type = "countGroups" ->
         evaluateCountGroupsCondition(condition, ctx)
    [] OTHER -> TRUE

evaluateCondition(condition, ctx) ==
  CASE condition.type = "sum" -> evaluateSumCondition(condition, ctx)
    [] condition.type = "countGroups" ->
         evaluateCountGroupsCondition(condition, ctx)
    [] OTHER -> FALSE

\* What evaluating one condition writes to the console.
ConditionWarnings(w, condition) ==
  IF condition.type \in {"sum", "countGroups"}
  THEN WarnOperator(w, IF condition.operator = "" THEN ">="
                       ELSE condition.operator)
  ELSE Append(w, "Unknown condition type")

\* everyCondition as conditions.some: one true condition is enough.
RECURSIVE everyCondition_some(_, _, _)
everyCondition_some(conditions, ctx, w) ==
  IF conditions = <<>> THEN [satisfied |-> FALSE, warnings |-> w]
  ELSE LET cond == Head(conditions)
           w1 == ConditionWarnings(w, cond)
       IN IF evaluateCondition(cond, ctx)
          THEN [satisfied |-> TRUE, warnings |-> w1]
          ELSE everyCondition_some(Tail(conditions), ctx, w1)

\* conditions.every(cond => evaluateCondition(cond, ctx)): stops at the
\* first condition that is false.
RECURSIVE everyCondition(_, _, _)
everyCondition(conditions, ctx, w) ==
  IF conditions = <<>> THEN [satisfied |-> TRUE, warnings |-> w]
  ELSE LET cond == Head(conditions)
           w1 == ConditionWarnings(w, cond)
       IN IF evaluateCondition(cond, ctx)
          THEN everyCondition(Tail(conditions), ctx, w1)
          ELSE [satisfied |-> FALSE, warnings |-> w1]

RECURSIVE mapRules(_, _, _)
mapRules(rules, ctx, acc) ==
  IF rules = <<>> THEN acc
  ELSE LET rule == Head(rules)
           r == everyCondition(ConditionsOf(rule), ctx, acc.warnings)
       IN mapRules(Tail(rules), ctx,
            [results |-> Append(acc.results,
                           [rule |-> rule, satisfied |-> r.satisfied]),
             warnings |-> r.warnings])

evaluateRules(b, coalitionGroups) ==
  LET rules == RulesOf(b)
      metrics == MetricsOf(b)
      groups == GroupsOf(b)
  IN mapRules(rules,
       [metrics |-> metrics, groups |-> groups,
        coalitionGroups |-> coalitionGroups],
       [results |-> <<>>, warnings |-> <<>>])

(* ---------- coalition search ---------- *)

\* (g.metrics && g.metrics[defaultMetricId]) || 0
seatsOf(g, defaultMetricId) == OrZero(MetricValue(g, defaultMetricId))

\* suffixMax leaving out the seats of the group at i.
RECURSIVE suffixMax_next(_, _, _)
suffixMax_next(remaining, defaultMetricId, i) ==
  IF i + 1 >= Len(remaining) THEN 0
  ELSE suffixMax_next(remaining, defaultMetricId, i + 1)
       + seatsOf(remaining[i + 2], defaultMetricId)

\* suffixMax[i] = suffixMax[i + 1] + remainingSeats[i], suffixMax[n] = 0;
\* i is the 0-based index of the code.
RECURSIVE suffixMax(_, _, _)
suffixMax(remaining, defaultMetricId, i) ==
  IF i >= Len(remaining) THEN 0
  ELSE suffixMax(remaining, defaultMetricId, i + 1)
       + seatsOf(remaining[i + 1], defaultMetricId)

\* rules.find(r => r.id === ruleId): index of the first match, 0 if none.
findRule(rules, id) ==
  IF \E i \in 1..Len(rules) : rules[i].id = id
  THEN CHOOSE i \in 1..Len(rules) :
         /\ rules[i].id = id
         /\ \A j \in 1..(i - 1) : rules[j].id # id
  ELSE 0

\* selectRule falling back to the last declared rule.
selectRule_last(rules, id) ==
  IF findRule(rules, id) # 0 THEN findRule(rules, id) ELSE Len(rules)

\* rules.find(...) || rules[0]: index of the selected rule, 0 if none.
selectRule(rules, id) ==
  IF findRule(rules, id) # 0 THEN findRule(rules, id)
  ELSE IF Len(rules) > 0 THEN 1 ELSE 0

\* findSumCond taking the first sum condition on any metric.
findSumCond_anyMetric(conditions, defaultMetricId) ==
  IF \E i \in 1..Len(conditions) : conditions[i].type = "sum"
  THEN CHOOSE i \in 1..Len(conditions) :
         /\ conditions[i].type = "sum"
         /\ \A j \in 1..(i - 1) : conditions[j].type # "sum"
  ELSE 0

\* findSumCond taking the last sum condition on the default metric.
findSumCond_last(conditions, defaultMetricId) ==
  LET Driving(c) == c.type = "sum" /\ c.metric = defaultMetricId
  IN IF \E i \in 1..Len(conditions) : Driving(conditions[i])
     THEN CHOOSE i \in 1..Len(conditions) :
            /\ Driving(conditions[i])
            /\ \A j \in (i + 1)..Len(conditions) : ~Driving(conditions[j])
     ELSE 0

\* conditions.find(c => c.type === "sum" && c.metric === defaultMetricId):
\* index of the first match, 0 if none.
findSumCond(conditions, defaultMetricId) ==
  LET Driving(c) == c.type = "sum" /\ c.metric = defaultMetricId
  IN IF \E i \in 1..Len(conditions) : Driving(conditions[i])
     THEN CHOOSE i \in 1..Len(conditions) :
            /\ Driving(conditions[i])
            /\ \A j \in 1..(i - 1) : ~Driving(conditions[j])
     ELSE 0

\* dfs(index + 1, ...) stepping over a group.
NextIndex_skip(index) == index + 2

\* dfs(index + 1, ...): the index of a recursive call.
NextIndex(index) == index + 1

\* results.push(coalitionGroups) putting the coalition first.
ArrayPush_front(array, x) == <<x>> \o array

\* results.push(coalitionGroups)
ArrayPush(array, x) == Append(array, x)

\* currentIds.delete(g.id) deleting nothing.
SetDelete_skip(ids, id) == ids

\* currentIds.delete(g.id)
SetDelete(ids, id) == ids \ {id}

\* new Set(baselineIds) leaving the baseline out.
NewSet_empty(ids) == {}

\* new Set(baselineIds): the search's own copy of the caller's set.
NewSet(ids) == ids

\* The recursive search.  c holds the constants of the enclosing call, st
\* the objects the closure mutates: the currentIds set, the results array
\* and the console; st.calls logs the arguments of every call and whether
\* the call ended in the pruning return.
RECURSIVE dfs(_, _, _, _)
dfs(c, index, currentSeats, st) ==
  LET winning == compareValues(c.operator, Whole(currentSeats), c.threshold)
      maxPossible ==
        currentSeats + suffixMax(c.remaining, c.defaultMetricId, index)
      pruned ==
        /\ ~winning
        /\ index < Len(c.remaining)
        /\ ~compareValues(c.operator, Whole(maxPossible), c.threshold)
      s0 == [st EXCEPT
               !.calls = Append(@, [index |-> index,
                                    currentSeats |-> currentSeats,
                                    currentIds |-> st.currentIds,
                                    pruned |-> pruned]),
               !.warnings = WarnOperator(@, c.operator)]
  IN IF winning
     THEN LET addedIds == s0.currentIds \ c.baselineIds
              StillWinning(id) ==
                LET g == CHOOSE g \in SeqToSet(c.groups) : g.id = id
                    s == seatsOf(g, c.defaultMetricId)
                    seatsWithout == currentSeats - s
                IN compareValues(c.operator, Whole(seatsWithout), c.threshold)
          IN IF \E id \in addedIds : StillWinning(id)
             THEN s0
             ELSE [s0 EXCEPT !.results =
                     ArrayPush(@, FilterIds(c.groups, s0.currentIds))]
     ELSE IF index >= Len(c.remaining) THEN s0
     ELSE LET s1 == [s0 EXCEPT !.warnings = WarnOperator(@, c.operator)]
          IN IF pruned
             THEN s1
             ELSE LET g == c.remaining[index + 1]
                      s == seatsOf(g, c.defaultMetricId)
                      s2 == dfs(c, NextIndex(index), currentSeats + s,
                                [s1 EXCEPT !.currentIds = @ \cup {g.id}])
                      s3 == [s2 EXCEPT !.currentIds = SetDelete(@, g.id)]
                  IN dfs(c, NextIndex(index), currentSeats, s3)

\* The value of every early `return []`.
NoSearch(ids) ==
  [results |-> <<>>, warnings |-> <<>>, currentIds |-> ids, calls |-> <<>>]

findMinimalWinningCoalitions(b, ids, id) ==
  LET groups == GroupsOf(b)
      metrics == MetricsOf(b)
      rules == RulesOf(b)
      defaultMetricId == getDefaultMetricId(metrics)
      ri == selectRule(rules, id)
  IN IF defaultMetricId = "" THEN NoSearch(ids)
     ELSE IF ri = 0 THEN NoSearch(ids)
     ELSE LET rule == rules[ri]
              ci == findSumCond(ConditionsOf(rule), defaultMetricId)
          IN IF ci = 0 THEN NoSearch(ids)
             ELSE LET sumCond == ConditionsOf(rule)[ci]
                      threshold ==
                        resolveThreshold(sumCond.threshold,
                          [metrics |-> metrics, groups |-> groups,
                           metricId |-> defaultMetricId])
                      operator == IF sumCond.operator = "" THEN ">="
                                  ELSE sumCond.operator
                      baselineGroups == FilterIds(groups, ids)
                      baselineSeats == sumMetric(baselineGroups, defaultMetricId)
                      remaining ==
                        FilterIds(groups,
                          {g.id : g \in SeqToSet(groups)} \ ids)
                  IN dfs([groups |-> groups, baselineIds |-> ids,
                          remaining |-> remaining, operator |-> operator,
                          threshold |-> threshold,
                          defaultMetricId |-> defaultMetricId],
                         0, baselineSeats,
                         [results |-> <<>>, warnings |-> <<>>,
                          currentIds |-> NewSet(ids), calls |-> <<>>])

(* ---------- inputs ---------- *)

GroupIdAt == <<"A", "B", "C", "D", "E", "F", "G">>

Group(id, seats) == [id |-> id, metrics |-> [seats |-> seats, votes |-> Num(1)]]

Metric(id, isDefault, total) ==
  [id |-> id, isDefault |-> isDefault, total |-> total]

NoThreshold ==
  [kind |-> "", hasValue |-> FALSE, value |-> Rat(0, 1), offset |-> Absent,
   metric |-> ""]
Absolute(v) ==
  [kind |-> "absolute", hasValue |-> TRUE, value |-> Rat(v, 1),
   offset |-> Absent, metric |-> ""]
FractionOfTotal(n, d, offset) ==
  [kind |-> "fractionOfTotal", hasValue |-> TRUE, value |-> Rat(n, d),
   offset |-> offset, metric |-> ""]

SumCond(metric, operator, threshold) ==
  [type |-> "sum", metric |-> metric, operator |-> operator,
   threshold |-> threshold, value |-> Absent]
CountCond(operator, value) ==
  [type |-> "countGroups", metric |-> "", operator |-> operator,
   threshold |-> NoThreshold, value |-> value]
OtherCond ==
  [type |-> "ratio", metric |-> "", operator |-> "", threshold |-> NoThreshold,
   value |-> Absent]

Rule(id, conditions) ==
  [id |-> id, hasConditions |-> TRUE, conditions |-> conditions]
RuleWithoutConditions(id) ==
  [id |-> id, hasConditions |-> FALSE, conditions |-> <<>>]

Body(metrics, groups, rules) ==
  [hasMetrics |-> TRUE, metrics |-> metrics, hasGroups |-> TRUE,
   groups |-> groups, hasRules |-> TRUE, rules |-> rules]

\* The seven operators of compareValues, one the code does not know, and a
\* missing one.
Operators == SupportedOperators \cup {"~", ""}

\* The metric values of the groups of a generated body.
SeatValues == {Absent, JsTrue, Num(-1), Num(1), Num(2)}

\* Group lists A, B, ... of every length up to MaxGroups.
GroupLists ==
  UNION {{[i \in 1..n |-> Group(GroupIdAt[i], f[i])] :
            f \in [1..n -> SeatValues]} : n \in 0..MaxGroups}

SeatsOnly == <<Metric("seats", FALSE, Absent)>>

\* Bodies with one rule of one sum condition on the only metric: every
\* group list, with every operator against an absolute threshold and with
\* >= against half the total.
SearchConditions ==
  {SumCond("seats", o, Absolute(2)) : o \in Operators}
  \cup {SumCond("seats", ">=", FractionOfTotal(1, 2, Absent))}

SearchBodies ==
  {Body(SeatsOnly, gs, <<Rule("r1", <<c>>)>>) :
     gs \in GroupLists, c \in SearchConditions}

\* Bodies that vary the rules and the metrics over one group list: rule r1
\* has up to two conditions, an optional rule r2 has up to one, and the
\* default metric is seats or votes, flagged or first, or there is none.
Majority == SumCond("seats", ">=", FractionOfTotal(1, 2, Absent))
Conditions ==
  {Majority, SumCond("seats", ">", Absolute(2)),
   SumCond("votes", ">=", Absolute(2)), SumCond("votes", "~", Absolute(2)),
   CountCond("<=", Num(2)), CountCond("~", Num(2)), OtherCond}

ConditionLists ==
  {<<>>} \cup {<<c>> : c \in Conditions}
         \cup {<<c, d>> : c \in Conditions, d \in Conditions}

FirstRules ==
  {Rule("r1", cs) : cs \in ConditionLists} \cup {RuleWithoutConditions("r1")}
SecondRules ==
  {Rule("r2", <<>>), Rule("r2", <<Majority>>), Rule("r2", <<OtherCond>>),
   Rule("r2", <<SumCond("seats", ">", Absolute(2))>>)}

RuleLists ==
  {<<>>} \cup {<<r>> : r \in FirstRules}
         \cup {<<r, q>> : r \in FirstRules, q \in SecondRules}

MetricLists ==
  {<<>>, SeatsOnly, <<Metric("seats", FALSE, Num(4))>>,
   <<Metric("votes", FALSE, Absent), Metric("seats", TRUE, Absent)>>,
   <<Metric("votes", FALSE, Absent), Metric("seats", FALSE, Absent)>>}

ThreeGroups == <<Group("A", Num(2)), Group("B", Num(1)), Group("C", Num(1))>>

\* Documents in which a container is missing altogether.
MalformedBodies ==
  {[hasMetrics |-> hm, metrics |-> IF hm THEN SeatsOnly ELSE <<>>,
    hasGroups |-> hg, groups |-> IF hg THEN ThreeGroups ELSE <<>>,
    hasRules |-> hr, rules |-> IF hr THEN <<Rule("r1", <<Majority>>)>> ELSE <<>>] :
     hm \in BOOLEAN, hg \in BOOLEAN, hr \in BOOLEAN}

StructureBodies ==
  {Body(ms, ThreeGroups, rs) : ms \in MetricLists, rs \in RuleLists}
  \cup MalformedBodies

\* The example of the specification: A(30), B(25), C(20), D(15), E(10),
\* 100 seats in total, absolute majority = sum of seats >= half the total.
ExampleGroups ==
  <<Group("A", Num(30)), Group("B", Num(25)), Group("C", Num(20)),
    Group("D", Num(15)), Group("E", Num(10))>>
ExampleBody == Body(SeatsOnly, ExampleGroups, <<Rule("r1", <<Majority>>)>>)

(* ---------- specification ---------- *)

\* A behaviour is one caller: it holds a body and the arguments of a call
\* (call names the function), and calls the function any number of times.
\* The search bodies are searched with the id of their rule; the other
\* bodies are searched with each of their rule ids and an unknown one, and
\* evaluated.

GroupIds(b) == {g.id : g \in SeqToSet(GroupsOf(b))}

\* No shared helper is called on its own, and no discovery runs.
NoHelperCall == args = <<>> /\ answer = <<>>
\* No viewer is rendered.
NoViewer ==
  /\ selectedIds = {}
  /\ selectedRuleId = ""
  /\ click = <<>>
  /\ summary = <<>>
NoDiscovery ==
  /\ pc = "idle"
  /\ manifest = <<>>
  /\ fetched = <<>>
  /\ entries = <<>>
  /\ fetches = <<>>
  /\ onDone = <<>>

\* The ids of the body's rules and one id that no rule has.
RuleIdInputs(b) == {r.id : r \in SeqToSet(RulesOf(b))} \cup {"zz"}

Init ==
  /\ \/ /\ body \in SearchBodies
        /\ call = "find"
        /\ ruleId = "r1"
     \/ /\ body \in StructureBodies \cup {ExampleBody}
        /\ call = "find"
        /\ ruleId \in RuleIdInputs(body)
     \/ /\ body \in StructureBodies \cup {ExampleBody}
        /\ call = "evaluate"
        /\ ruleId = ""
  /\ baselineIds \in SUBSET GroupIds(body)
  /\ returned = FALSE
  /\ results = <<>>
  /\ evaluation = <<>>
  /\ warnings = <<>>
  /\ currentIds = {}
  /\ calls = <<>>
  /\ NoHelperCall
  /\ NoDiscovery
  /\ NoViewer

\* findMinimalWinningCoalitions(body, baselineIds, ruleId)
FindMinimalWinningCoalitions ==
  /\ call = "find"
  /\ LET r == findMinimalWinningCoalitions(body, baselineIds, ruleId)
     IN /\ returned' = TRUE
        /\ results' = r.results
        /\ warnings' = r.warnings
        /\ currentIds' = r.currentIds
        /\ calls' = r.calls
  /\ UNCHANGED <<body, call, baselineIds, ruleId, evaluation>>
  /\ UNCHANGED <<helperVars, discoveryVars, viewerVars>>

\* evaluateRules(body, coalitionGroups), the coalition being the groups of
\* the body whose ids are in baselineIds (the caller's selection).
EvaluateRules ==
  /\ call = "evaluate"
  /\ LET r == evaluateRules(body, FilterIds(GroupsOf(body), baselineIds))
     IN /\ returned' = TRUE
        /\ evaluation' = r.results
        /\ warnings' = r.warnings
  /\ UNCHANGED <<body, call, baselineIds, ruleId, results, currentIds, calls>>
  /\ UNCHANGED <<helperVars, discoveryVars, viewerVars>>

Next == FindMinimalWinningCoalitions \/ EvaluateRules

Spec == Init /\ [][Next]_vars

(* ---------- calls of the shared helpers ---------- *)

\* Largest number of metrics in a generated metrics object.
MaxMetrics == 3

MetricIdAt == <<"seats", "votes", "share", "turnout", "budget">>

\* The metrics objects given to getDefaultMetricId: the entries are in the
\* order of Object.entries, which for ids that are not integer-like is the
\* order of declaration.
MetricDeclarations ==
  UNION {{[i \in 1..n |-> Metric(MetricIdAt[i], f[i], Absent)] :
            f \in [1..n -> BOOLEAN]} : n \in 0..MaxMetrics}

Threshold(kind, n, d, offset, metric) ==
  [kind |-> kind, hasValue |-> TRUE, value |-> Rat(n, d), offset |-> offset,
   metric |-> metric]

\* Every kind of the code, a missing one and one it does not know; half and
\* two; with and without an offset; with and without a metric of its own.
ThresholdKinds == {"", "absolute", "percentage", "fractionOfTotal", "quorum"}
Thresholds ==
  {Threshold(k, v[1], v[2], o, m) :
     k \in ThresholdKinds, v \in {<<1, 2>>, <<2, 1>>},
     o \in {Absent, Num(1)}, m \in {"", "votes"}}

\* Metric definitions with and without a precomputed total.
MetricTotals ==
  {<<>>, SeatsOnly, <<Metric("seats", FALSE, Num(4))>>,
   <<Metric("seats", FALSE, Num(0))>>,
   <<Metric("votes", FALSE, Num(10)), Metric("seats", FALSE, Absent)>>}

\* Group lists for a total: none, three groups, the example's five, and
\* three groups of which one has a non-numeric value and one has none.
TotalGroups ==
  {<<>>, ThreeGroups, ExampleGroups,
   <<Group("A", JsTrue), Group("B", Absent), Group("C", Num(3))>>}

\* Sum conditions on the seats, for two coalitions A and B of a body's
\* groups with A contained in B.
MonotoneConditions ==
  {SumCond("seats", ">=", Absolute(2)), SumCond("seats", "", Absolute(2)),
   SumCond("seats", ">=", FractionOfTotal(1, 2, Absent)),
   SumCond("seats", "<", Absolute(2))}

\* A caller that calls one of the helpers, any number of times.
HelperInit ==
  /\ \/ /\ call = "resolveThreshold"
        /\ \E t \in Thresholds, ms \in MetricTotals, gs \in TotalGroups :
             args = [threshold |-> t, metrics |-> ms, groups |-> gs,
                     metricId |-> "seats"]
     \/ /\ call = "getDefaultMetricId"
        /\ \E ms \in MetricDeclarations : args = [metrics |-> ms]
     \/ /\ call = "evaluateSumCondition"
        /\ \E gs \in GroupLists, c \in MonotoneConditions :
             \E b \in SUBSET {g.id : g \in SeqToSet(gs)} :
               \E a \in SUBSET b :
                 args = [condition |-> c, metrics |-> SeatsOnly,
                         groups |-> gs, A |-> a, B |-> b]
  /\ returned = FALSE
  /\ answer = <<>>
  /\ body = Body(<<>>, <<>>, <<>>)
  /\ baselineIds = {}
  /\ ruleId = ""
  /\ results = <<>>
  /\ evaluation = <<>>
  /\ warnings = <<>>
  /\ currentIds = {}
  /\ calls = <<>>
  /\ NoDiscovery
  /\ NoViewer

\* resolveThreshold(threshold, ctx)
ResolveThreshold ==
  /\ call = "resolveThreshold"
  /\ returned' = TRUE
  /\ answer' = resolveThreshold(args.threshold,
                  [metrics |-> args.metrics, groups |-> args.groups,
                   metricId |-> args.metricId])
  /\ UNCHANGED <<call, args, searchVars, discoveryVars, viewerVars>>

\* getDefaultMetricId(metrics)
GetDefaultMetricId ==
  /\ call = "getDefaultMetricId"
  /\ returned' = TRUE
  /\ answer' = getDefaultMetricId(args.metrics)
  /\ UNCHANGED <<call, args, searchVars, discoveryVars, viewerVars>>

\* evaluateSumCondition(condition, ctx) for the coalition A and for the
\* coalition B, with the sum each of the two calls takes.
EvaluateSumCondition ==
  /\ call = "evaluateSumCondition"
  /\ returned' = TRUE
  /\ LET Ctx(ids) == [metrics |-> args.metrics, groups |-> args.groups,
                      coalitionGroups |-> FilterIds(args.groups, ids)]
     IN answer' =
          [sumA |-> sumMetric(Ctx(args.A).coalitionGroups, args.condition.metric),
           sumB |-> sumMetric(Ctx(args.B).coalitionGroups, args.condition.metric),
           satisfiedA |-> evaluateSumCondition(args.condition, Ctx(args.A)),
           satisfiedB |-> evaluateSumCondition(args.condition, Ctx(args.B))]
  /\ UNCHANGED <<call, args, searchVars, discoveryVars, viewerVars>>

HelperNext == ResolveThreshold \/ GetDefaultMetricId \/ EvaluateSumCondition

HelperSpec == HelperInit /\ [][HelperNext]_vars

(* ---------- config discovery and the slow manifest path ---------- *)

\* Largest number of items of a manifest and of anchors of a listing.
MaxEntries == 2

manifestUrl == "/config/index.json"
autoindexUrl == "/config/"

\* defaultInferLabel(file) for the files of the generated responses:
\* directories and the .json extension stripped, runs of _ and - turned
\* into a space, first letter in upper case.
defaultInferLabel(file) ==
  CASE file \in {"a.json", "/config/a.json"} -> "A"
    [] file \in {"no_storting.json", "/config/no_storting.json"} ->
         "No storting"
    [] file = "/config/b-2.JSON" -> "B 2"
    [] OTHER -> file

\* normalizeHref(baseUrl, href) for baseUrl "/config/": an href that starts
\* with / or a scheme is kept; for any other, new URL(href, "/config/")
\* throws (the base is not absolute) and the href is appended to the base.
normalizeHref(baseUrl, href) ==
  CASE href = "/config/a.json" -> href
    [] href = "a.json" -> "/config/a.json"
    [] href = "no_storting.json" -> "/config/no_storting.json"
    [] href = "b-2.JSON" -> "/config/b-2.JSON"
    [] OTHER -> href

\* The items of a manifest array: a string, an object with file and label,
\* an object with a file only, an object without a file, null, a number.
ItemString(file) ==
  [t |-> "string", file |-> file, hasFile |-> FALSE, hasLabel |-> FALSE,
   label |-> ""]
ItemObject(hasFile, file, hasLabel, label) ==
  [t |-> "object", file |-> file, hasFile |-> hasFile, hasLabel |-> hasLabel,
   label |-> label]
ItemNull ==
  [t |-> "null", file |-> "", hasFile |-> FALSE, hasLabel |-> FALSE,
   label |-> ""]
ItemNumber ==
  [t |-> "number", file |-> "", hasFile |-> FALSE, hasLabel |-> FALSE,
   label |-> ""]

Items ==
  {ItemString("a.json"),
   ItemObject(TRUE, "no_storting.json", TRUE, "Storting"),
   ItemObject(TRUE, "a.json", FALSE, ""),
   ItemObject(FALSE, "", TRUE, "X"),
   ItemNull, ItemNumber}

\* A response body: text that is not JSON, a JSON object, a JSON array.
BodyInvalid == [t |-> "invalid", items |-> <<>>]
BodyObject == [t |-> "object", items |-> <<>>]
BodyArray(items) == [t |-> "array", items |-> items]

\* fetch rejected (network error, CORS), or a response.
NetworkError ==
  [error |-> TRUE, ok |-> FALSE, contentType |-> "", body |-> BodyInvalid,
   anchors |-> <<>>]
Response(ok, contentType, b) ==
  [error |-> FALSE, ok |-> ok, contentType |-> contentType, body |-> b,
   anchors |-> <<>>]
Listing(ok, anchors) ==
  [error |-> FALSE, ok |-> ok, contentType |-> "text/html",
   body |-> BodyInvalid, anchors |-> anchors]

\* The content types served, "" for a missing header.
ContentTypes ==
  {"application/json", "application/json; charset=utf-8", "text/html", ""}

\* contentType.includes("application/json")
IncludesJson(contentType) ==
  contentType \in {"application/json", "application/json; charset=utf-8"}

ItemLists ==
  UNION {[1..n -> Items] : n \in 0..MaxEntries}

ManifestResponses ==
  {NetworkError}
  \cup {Response(ok, ct, b) :
          ok \in BOOLEAN, ct \in ContentTypes,
          b \in {BodyInvalid, BodyObject} \cup {BodyArray(is) : is \in ItemLists}}

\* The href attributes of the anchors of a directory listing.
Hrefs ==
  {"a.json", "/config/a.json", "no_storting.json", "b-2.JSON", "../",
   "?C=N;O=D", "readme.txt", ""}

AutoindexResponses ==
  {NetworkError}
  \cup {Listing(ok, as) :
          ok \in BOOLEAN, as \in UNION {[1..n -> Hrefs] : n \in 0..MaxEntries}}

Entry(file, label) == [file |-> file, label |-> label]

\* data.map(item => ...).filter(Boolean)
RECURSIVE normalizeEntries(_)
normalizeEntries(items) ==
  IF items = <<>> THEN <<>>
  ELSE LET item == Head(items)
           mapped ==
             IF item.t = "string"
             THEN <<Entry(item.file, defaultInferLabel(item.file))>>
             ELSE IF item.t # "object" \/ ~item.hasFile THEN <<>>
             ELSE <<Entry(item.file,
                          IF item.hasLabel THEN item.label
                          ELSE defaultInferLabel(item.file))>>
       IN mapped \o normalizeEntries(Tail(items))

\* What tryLoadManifest resolves to: null, or an array of entries.
Null == [null |-> TRUE, entries |-> <<>>]
Array(es) == [null |-> FALSE, entries |-> es]

tryLoadManifest(res) ==
  IF res.error THEN Null
  ELSE IF ~res.ok THEN Null
  ELSE IF ~IncludesJson(res.contentType) THEN Null
  ELSE IF res.body.t = "invalid" THEN Null
  ELSE IF res.body.t # "array" THEN Null
  ELSE Array(normalizeEntries(res.body.items))

\* if (fromManifest) taking an empty array for no manifest.
IsTruthy_nonEmpty(fromManifest) ==
  ~fromManifest.null /\ fromManifest.entries # <<>>

\* if (fromManifest): an array, also an empty one, is truthy.
IsTruthy(fromManifest) == ~fromManifest.null

\* href.includes("?") and href.toLowerCase().endsWith(".json"), for the
\* hrefs of the generated listings.
IncludesQuery(href) == href = "?C=N;O=D"
EndsWithJson(href) ==
  href \in {"a.json", "/config/a.json", "no_storting.json", "b-2.JSON"}

\* The loop over the anchors: seen is the set of files already pushed.
RECURSIVE collectAnchors(_, _)
collectAnchors(anchors, seen) ==
  IF anchors = <<>> THEN <<>>
  ELSE LET href == Head(anchors)
           file == normalizeHref(autoindexUrl, href)
           skip ==
             \/ href = ""
             \/ href = "../"
             \/ IncludesQuery(href)
             \/ ~EndsWithJson(href)
             \/ file \in seen
       IN IF skip THEN collectAnchors(Tail(anchors), seen)
          ELSE <<Entry(file, defaultInferLabel(file))>>
               \o collectAnchors(Tail(anchors), seen \cup {file})

\* What loadFromAutoindex does: it throws, or it returns entries.
Thrown == [threw |-> TRUE, entries |-> <<>>]
Returned(es) == [threw |-> FALSE, entries |-> es]

loadFromAutoindex(res) ==
  IF res.error THEN Thrown
  ELSE IF ~res.ok THEN Thrown
  ELSE Returned(collectAnchors(res.anchors, {}))

\* The value of a fulfilled config fetch.
Loaded(entry) == [file |-> entry.file, config |-> [of |-> entry.file]]

\* The loop over the settled results: the values of the fulfilled ones.
RECURSIVE collectLoaded(_, _, _)
collectLoaded(es, settled, i) ==
  IF i > Len(es) THEN <<>>
  ELSE (IF settled[i] = "fulfilled" THEN <<Loaded(es[i])>> ELSE <<>>)
       \o collectLoaded(es, settled, i + 1)

\* getManifestSlow(onDone) is called once.
DiscoveryInit ==
  /\ call = "getManifestSlow"
  /\ returned = FALSE
  /\ pc = "start"
  /\ manifest = <<>>
  /\ fetched = <<>>
  /\ entries = <<>>
  /\ fetches = <<>>
  /\ onDone = <<>>
  /\ NoHelperCall
  /\ NoViewer
  /\ body = Body(<<>>, <<>>, <<>>)
  /\ baselineIds = {}
  /\ ruleId = ""
  /\ results = <<>>
  /\ evaluation = <<>>
  /\ warnings = <<>>
  /\ currentIds = {}
  /\ calls = <<>>

\* getManifestSlow calls getConfigIndex, which calls tryLoadManifest, which
\* fetches the manifest.
FetchManifest ==
  /\ pc = "start"
  /\ pc' = "manifest"
  /\ fetched' = Append(fetched, manifestUrl)
  /\ UNCHANGED <<call, returned, manifest, entries, fetches, onDone,
                 searchVars, helperVars>>
  /\ UNCHANGED viewerVars

\* The manifest fetch settles and tryLoadManifest resolves; getConfigIndex
\* returns its entries, or goes on to loadFromAutoindex, which fetches the
\* listing.
ManifestSettles ==
  /\ pc = "manifest"
  /\ \E res \in ManifestResponses :
       LET fromManifest == tryLoadManifest(res)
       IN /\ manifest' = res
          /\ IF IsTruthy(fromManifest)
             THEN /\ entries' = fromManifest.entries
                  /\ pc' = "discovered"
                  /\ UNCHANGED fetched
             ELSE /\ pc' = "autoindex"
                  /\ fetched' = Append(fetched, autoindexUrl)
                  /\ UNCHANGED entries
  /\ UNCHANGED <<call, returned, fetches, onDone, searchVars, helperVars>>
  /\ UNCHANGED viewerVars

\* The listing fetch settles: loadFromAutoindex returns entries, or throws,
\* which rejects getConfigIndex and with it getManifestSlow.
AutoindexSettles ==
  /\ pc = "autoindex"
  /\ \E res \in AutoindexResponses :
       LET fromAutoindex == loadFromAutoindex(res)
       IN IF fromAutoindex.threw
          THEN /\ pc' = "rejected"
               /\ returned' = TRUE
               /\ UNCHANGED entries
          ELSE /\ pc' = "discovered"
               /\ entries' = fromAutoindex.entries
               /\ UNCHANGED returned
  /\ UNCHANGED <<call, manifest, fetched, fetches, onDone, searchVars,
                 helperVars>>
  /\ UNCHANGED viewerVars

\* No entries: onDone([]) and return.
NoEntries ==
  /\ pc = "discovered"
  /\ Len(entries) = 0
  /\ onDone' = Append(onDone, <<>>)
  /\ pc' = "done"
  /\ returned' = TRUE
  /\ UNCHANGED <<call, manifest, fetched, entries, fetches, searchVars,
                 helperVars>>
  /\ UNCHANGED viewerVars

\* entries.map(async entry => fetch(entry.file) ...): every fetch starts.
StartFetches ==
  /\ pc = "discovered"
  /\ Len(entries) > 0
  /\ fetches' = [i \in 1..Len(entries) |-> "pending"]
  /\ fetched' = fetched \o [i \in 1..Len(entries) |-> entries[i].file]
  /\ pc' = "fetching"
  /\ UNCHANGED <<call, returned, manifest, entries, onDone, searchVars,
                 helperVars>>
  /\ UNCHANGED viewerVars

\* One config fetch settles: fulfilled with the parsed config, or rejected
\* (network error, status not OK, a body that is not JSON).
FetchSettles ==
  /\ pc = "fetching"
  /\ \E i \in 1..Len(entries) :
       /\ fetches[i] = "pending"
       /\ \E outcome \in {"fulfilled", "rejected"} :
            fetches' = [fetches EXCEPT ![i] = outcome]
  /\ UNCHANGED <<call, returned, pc, manifest, fetched, entries, onDone,
                 searchVars, helperVars>>
  /\ UNCHANGED viewerVars

\* Promise.allSettled resolves: the fulfilled values are collected in the
\* order of the entries and onDone(loaded) is called.
AllSettled ==
  /\ pc = "fetching"
  /\ \A i \in 1..Len(entries) : fetches[i] # "pending"
  /\ onDone' = Append(onDone, collectLoaded(entries, fetches, 1))
  /\ pc' = "done"
  /\ returned' = TRUE
  /\ UNCHANGED <<call, manifest, fetched, entries, fetches, searchVars,
                 helperVars>>
  /\ UNCHANGED viewerVars

DiscoveryNext ==
  \/ FetchManifest
  \/ ManifestSettles
  \/ AutoindexSettles
  \/ NoEntries
  \/ StartFetches
  \/ FetchSettles
  \/ AllSettled

DiscoverySpec == DiscoveryInit /\ [][DiscoveryNext]_vars

\* Every request settles and every continuation that is ready is run by
\* the event loop.
DiscoveryFairSpec == DiscoverySpec /\ WF_vars(DiscoveryNext)

(* ---------- the viewer: group clicks and rule clicks ---------- *)

\* The bodies rendered: the example, three groups with two rules, with no
\* rule, and with no metric.
ViewerBodies ==
  {ExampleBody,
   Body(SeatsOnly, ThreeGroups,
        <<Rule("r1", <<Majority>>), Rule("r2", <<CountCond("<=", Num(2))>>)>>),
   Body(SeatsOnly, ThreeGroups, <<>>),
   Body(<<>>, ThreeGroups, <<Rule("r1", <<Majority>>)>>)}

\* No rule is selected: selectedRuleId is null.
NoRule == ""

\* selectedRuleId = id whether or not the rule was the selected one.
ruleClick_noClear(selected, rule) ==
  IF rule.id # "" THEN rule.id ELSE NoRule

\* The click handler of a rule item: the new selectedRuleId.
ruleClick(selected, rule) ==
  LET id == IF rule.id # "" THEN rule.id ELSE NoRule
  IN IF selected = id THEN NoRule ELSE id

\* The click handler of a group item: the new selectedIds.
groupClick(ids, group) ==
  IF group.id \in ids THEN ids \ {group.id} ELSE ids \cup {group.id}

\* updateCoalitionSummary(): the coalition totals, the rule list with the
\* items that carry the class "selected", and, when a rule is selected, the
\* call of findMinimalWinningCoalitions with its arguments and its result.
updateCoalitionSummary(b, ids, selected) ==
  LET groups == GroupsOf(b)
      metrics == MetricsOf(b)
      rules == RulesOf(b)
      defaultMetricId == getDefaultMetricId(metrics)
      coalitionGroups == FilterIds(groups, ids)
      totals ==
        IF Len(coalitionGroups) = 0
        THEN [text |-> "No groups selected.", count |-> 0, total |-> 0]
        ELSE IF defaultMetricId # ""
        THEN [text |-> "Coalition: groups and total",
              count |-> Len(coalitionGroups),
              total |-> sumMetric(coalitionGroups, defaultMetricId)]
        ELSE [text |-> "Coalition: groups", count |-> Len(coalitionGroups),
              total |-> 0]
      noSearch == [searched |-> FALSE, baselineIds |-> {}, ruleId |-> NoRule,
                   suggested |-> <<>>]
  IN IF Len(rules) = 0
     THEN [totals |-> totals, evaluation |-> <<>>, selectedItems |-> {},
           search |-> noSearch]
     ELSE [totals |-> totals,
           evaluation |-> evaluateRules(b, coalitionGroups).results,
           selectedItems |->
             {i \in 1..Len(rules) :
                rules[i].id # "" /\ rules[i].id = selected},
           search |->
             IF selected # NoRule
             THEN [searched |-> TRUE, baselineIds |-> ids,
                   ruleId |-> selected,
                   suggested |->
                     findMinimalWinningCoalitions(b, ids, selected).results]
             ELSE noSearch]

NoClick == [kind |-> "none", id |-> ""]

\* renderGoverningBody(body, container) is about to be called.
ViewerInit ==
  /\ call = "renderGoverningBody"
  /\ body \in ViewerBodies
  /\ returned = FALSE
  /\ selectedIds = {}
  /\ selectedRuleId = NoRule
  /\ click = NoClick
  /\ summary = <<>>
  /\ baselineIds = {}
  /\ ruleId = ""
  /\ results = <<>>
  /\ evaluation = <<>>
  /\ warnings = <<>>
  /\ currentIds = {}
  /\ calls = <<>>
  /\ NoHelperCall
  /\ NoDiscovery

\* renderGoverningBody: nothing is selected, and the initial summary.
Render ==
  /\ ~returned
  /\ returned' = TRUE
  /\ summary' = updateCoalitionSummary(body, selectedIds, selectedRuleId)
  /\ UNCHANGED <<call, selectedIds, selectedRuleId, click, searchVars,
                 helperVars, discoveryVars>>

\* A click on a group item.
GroupClick ==
  /\ returned
  /\ \E i \in 1..Len(GroupsOf(body)) :
       LET group == GroupsOf(body)[i]
       IN /\ selectedIds' = groupClick(selectedIds, group)
          /\ click' = [kind |-> "group", id |-> group.id]
          /\ summary' =
               updateCoalitionSummary(body, selectedIds', selectedRuleId)
  /\ UNCHANGED <<call, returned, selectedRuleId, searchVars, helperVars,
                 discoveryVars>>

\* A click on an item of the rule list.
RuleClick ==
  /\ returned
  /\ \E i \in 1..Len(summary.evaluation) :
       LET rule == summary.evaluation[i].rule
       IN /\ selectedRuleId' = ruleClick(selectedRuleId, rule)
          /\ click' = [kind |-> "rule", id |-> rule.id]
          /\ summary' =
               updateCoalitionSummary(body, selectedIds, selectedRuleId')
  /\ UNCHANGED <<call, returned, selectedIds, searchVars, helperVars,
                 discoveryVars>>

ViewerNext == Render \/ GroupClick \/ RuleClick

ViewerSpec == ViewerInit /\ [][ViewerNext]_vars

(* ---------- the driving condition, as the claims speak of it ---------- *)

\* The rule the claims call selected: the first rule named id, or the
\* first declared rule when no rule has that name.
Named(b, id) == {i \in 1..Len(RulesOf(b)) : RulesOf(b)[i].id = id}

SelectedRule(b, id) ==
  IF Named(b, id) # {}
  THEN RulesOf(b)[CHOOSE i \in Named(b, id) : \A j \in Named(b, id) : i <= j]
  ELSE RulesOf(b)[1]

\* The positions of the sum conditions on the default metric in a rule.
SumsOnDefault(b, rule) ==
  {i \in 1..Len(ConditionsOf(rule)) :
     /\ ConditionsOf(rule)[i].type = "sum"
     /\ ConditionsOf(rule)[i].metric = getDefaultMetricId(MetricsOf(b))}

\* The search has a driving condition: a default metric, a selected rule and
\* in it a sum condition on the default metric.
HasDriver(b, id) ==
  /\ MetricsOf(b) # <<>>
  /\ RulesOf(b) # <<>>
  /\ SumsOnDefault(b, SelectedRule(b, id)) # {}

\* The first such condition of the selected rule.
DrivingCond(b, id) ==
  LET rule == SelectedRule(b, id)
      I == SumsOnDefault(b, rule)
  IN ConditionsOf(rule)[CHOOSE i \in I : \A j \in I : i <= j]

\* operator(sum of the default metric over the groups with these ids,
\* threshold) for the driving condition of rule id.
Satisfies(b, id, ids) ==
  evaluateSumCondition(DrivingCond(b, id),
    [metrics |-> MetricsOf(b), groups |-> GroupsOf(b),
     coalitionGroups |-> FilterIds(GroupsOf(b), ids)])

IdsOf(coalition) == {g.id : g \in SeqToSet(coalition)}

Found == returned /\ call = "find"

\* The member sets of the returned coalitions.
ResultSets == {IdsOf(results[i]) : i \in 1..Len(results)}

\* Winning and no single non-baseline member can be removed.
MinimalWinning(b, id, base, ids) ==
  /\ Satisfies(b, id, ids)
  /\ \A m \in ids \ base : ~Satisfies(b, id, ids \ {m})

\* Every metric value of the body's groups is a number or absent.
NumericBody(b) ==
  \A g \in SeqToSet(GroupsOf(b)) :
    \A m \in DOMAIN g.metrics : g.metrics[m].t \in {"num", "absent"}

(* ---------- claims ---------- *)

\* C1: every coalition returned by findMinimalWinningCoalitions satisfies
\* the driving condition, and with any single non-baseline member removed
\* it does not.
C1_Minimality ==
  Found => \A ids \in ResultSets :
             MinimalWinning(body, ruleId, baselineIds, ids)

\* On bodies whose metric values are numbers or absent the returned
\* coalitions are minimal winning.
MinimalityOnNumericBodies ==
  (Found /\ NumericBody(body)) =>
     \A ids \in ResultSets : MinimalWinning(body, ruleId, baselineIds, ids)

\* The brute-force enumeration: every superset of the baseline within the
\* body that is minimal winning.
BruteForce(b, id, base) ==
  {base \cup a : a \in {x \in SUBSET (GroupIds(b) \ base) :
                          MinimalWinning(b, id, base, base \cup x)}}

\* C2: the set of coalitions returned by findMinimalWinningCoalitions equals
\* the brute-force set of minimal winning supersets of the baseline, for
\* every supported operator and all numeric metric values (at most 6
\* non-baseline groups).
C2_Completeness ==
  (/\ Found
   /\ HasDriver(body, ruleId)
   /\ NumericBody(body)
   /\ DrivingCond(body, ruleId).operator \in SupportedOperators \cup {""}
   /\ Cardinality(GroupIds(body) \ baselineIds) <= 6)
  => ResultSets = BruteForce(body, ruleId, baselineIds)

\* The threshold can only be reached by adding seats: operator >= or >
\* (or none, which means >=) and no negative metric value.
MonotoneSearch(b, id) ==
  /\ HasDriver(b, id)
  /\ DrivingCond(b, id).operator \in {">=", ">", ""}
  /\ NumericBody(b)
  /\ \A g \in SeqToSet(GroupsOf(b)) :
       \A m \in DOMAIN g.metrics : g.metrics[m].n >= 0

\* On such bodies the search is complete.
CompletenessOnMonotoneSearch ==
  (Found /\ MonotoneSearch(body, ruleId))
  => ResultSets = BruteForce(body, ruleId, baselineIds)

\* The example call: the example body, an empty baseline, its majority rule.
ExampleCall ==
  Found /\ body = ExampleBody /\ baselineIds = {} /\ ruleId = "r1"

\* C3 as stated: for the example body and an empty baseline the result
\* contains the coalitions {A,B} and {A,C,D}.
C3_ExampleCoalitions ==
  ExampleCall => ({"A", "B"} \in ResultSets /\ {"A", "C", "D"} \in ResultSets)

\* C3 amended: for the example body and an empty baseline the result
\* contains {A,B} (55) and {A,C} (50, which meets >= 50), and therefore not
\* {A,C,D}.
C3_ExampleCoalitionsAmended ==
  ExampleCall => /\ {"A", "B"} \in ResultSets
                 /\ {"A", "C"} \in ResultSets
                 /\ {"A", "C", "D"} \notin ResultSets

C3_Witness == ExampleCall /\ Len(results) = 6

\* C4: no returned coalition is a proper superset of another superset of
\* the baseline that satisfies the driving condition.
C4_NoWinningSubset ==
  Found => \A y \in ResultSets :
             \A x \in SUBSET y :
               (baselineIds \subseteq x /\ x # y)
                 => ~Satisfies(body, ruleId, x)

\* On bodies where the threshold can only be reached by adding seats no
\* returned coalition contains a smaller winning one.
NoWinningSubsetOnMonotoneSearch ==
  (Found /\ MonotoneSearch(body, ruleId)) =>
     \A y \in ResultSets :
       \A x \in SUBSET y :
         (baselineIds \subseteq x /\ x # y) => ~Satisfies(body, ruleId, x)

\* The body with its rules replaced.
WithRules(b, rules) == [b EXCEPT !.hasRules = TRUE, !.rules = rules]

\* C5: with two or more rules declared, a ruleId that matches no rule gives
\* exactly the result of a call with the id of the first declared rule, and
\* a ruleId that matches a rule gives the result of that rule alone.
C5_RuleSelection ==
  (Found /\ Len(RulesOf(body)) >= 2) =>
    IF Named(body, ruleId) = {}
    THEN results = findMinimalWinningCoalitions(
                     body, baselineIds, RulesOf(body)[1].id).results
    ELSE results = findMinimalWinningCoalitions(
                     WithRules(body, <<SelectedRule(body, ruleId)>>),
                     baselineIds, ruleId).results

\* An unknown rule id on a body whose two rules give different results.
C5_Witness ==
  /\ Found
  /\ Len(RulesOf(body)) >= 2
  /\ Named(body, ruleId) = {}
  /\ results # <<>>
  /\ results # findMinimalWinningCoalitions(
                  body, baselineIds, RulesOf(body)[2].id).results

\* C6: with no metrics, no rules, or no sum condition on the default metric
\* in the selected rule (missing containers included) the call returns the
\* empty sequence and never enters the search.
C6_EmptyWithoutDriver ==
  (Found /\ (\/ ~body.hasMetrics
             \/ ~body.hasRules
             \/ body.metrics = <<>>
             \/ body.rules = <<>>
             \/ SumsOnDefault(body, SelectedRule(body, ruleId)) = {}))
  => (results = <<>> /\ calls = <<>> /\ warnings = <<>>)

\* A call whose selected rule has a sum condition, but on another metric
\* than the default one.
C6_Witness ==
  /\ Found
  /\ results = <<>>
  /\ MetricsOf(body) # <<>>
  /\ RulesOf(body) # <<>>
  /\ ~HasDriver(body, ruleId)
  /\ \E c \in SeqToSet(ConditionsOf(SelectedRule(body, ruleId))) :
        c.type = "sum"

\* C7: the result is that of the selected rule reduced to its first sum
\* condition on the default metric; the other conditions have no effect.
C7_OnlyDrivingCondition ==
  (Found /\ HasDriver(body, ruleId)) =>
    results = findMinimalWinningCoalitions(
                WithRules(body, <<Rule(ruleId, <<DrivingCond(body, ruleId)>>)>>),
                baselineIds, ruleId).results

\* A search whose rule has a second sum condition on the default metric
\* that some returned coalition does not satisfy.
C7_Witness ==
  /\ Found
  /\ HasDriver(body, ruleId)
  /\ Cardinality(SumsOnDefault(body, SelectedRule(body, ruleId))) = 2
  /\ \E i \in 1..Len(results) :
        \E c \in SeqToSet(ConditionsOf(SelectedRule(body, ruleId))) :
          ~evaluateCondition(c, [metrics |-> MetricsOf(body),
                                 groups |-> GroupsOf(body),
                                 coalitionGroups |-> results[i]])

Evaluated == returned /\ call = "evaluate"

\* The evaluation context of the call: the coalition is the caller's
\* selection.
EvalCtx ==
  [metrics |-> MetricsOf(body), groups |-> GroupsOf(body),
   coalitionGroups |-> FilterIds(GroupsOf(body), baselineIds)]

\* C8: evaluateRules marks a rule satisfied iff every one of its conditions
\* is true for the coalition; a rule with an empty or missing condition
\* list is satisfied by every coalition.
C8_AllConditions ==
  Evaluated =>
    /\ Len(evaluation) = Len(RulesOf(body))
    /\ \A i \in 1..Len(evaluation) :
         LET rule == RulesOf(body)[i]
         IN /\ evaluation[i].satisfied =
                 (\A c \in SeqToSet(ConditionsOf(rule)) :
                    evaluateCondition(c, EvalCtx))
            /\ (~rule.hasConditions \/ rule.conditions = <<>>)
                 => evaluation[i].satisfied

\* A rule with one true and one false condition, reported unsatisfied.
C8_Witness ==
  /\ Evaluated
  /\ \E i \in 1..Len(evaluation) :
       /\ ~evaluation[i].satisfied
       /\ \E c \in SeqToSet(ConditionsOf(RulesOf(body)[i])) :
            evaluateCondition(c, EvalCtx)

\* The condition types evaluateCondition knows.
KnownTypes == {"sum", "countGroups"}

HasUnknownType(rule) ==
  \E c \in SeqToSet(ConditionsOf(rule)) : c.type \notin KnownTypes

\* The sub-sequence of a sequence at the positions in I.
RECURSIVE Pick(_, _, _)
Pick(seq, I, i) ==
  IF i > Len(seq) THEN <<>>
  ELSE (IF i \in I THEN <<seq[i]>> ELSE <<>>) \o Pick(seq, I, i + 1)

\* C9: a rule with a condition of unknown type is unsatisfied for every
\* coalition; there is one result per rule, in declared order; and the
\* results of the other rules are those of the body without such rules.
C9_UnknownConditionType ==
  Evaluated =>
    LET rules == RulesOf(body)
        others == {i \in 1..Len(rules) : ~HasUnknownType(rules[i])}
    IN /\ Len(evaluation) = Len(rules)
       /\ \A i \in 1..Len(rules) :
            /\ evaluation[i].rule = rules[i]
            /\ HasUnknownType(rules[i]) => ~evaluation[i].satisfied
       /\ Pick(evaluation, others, 1) =
            evaluateRules(WithRules(body, Pick(rules, others, 1)),
                          EvalCtx.coalitionGroups).results

\* A first rule with a condition of unknown type before a satisfied rule.
C9_Witness ==
  /\ Evaluated
  /\ Len(evaluation) = 2
  /\ HasUnknownType(RulesOf(body)[1])
  /\ ~evaluation[1].satisfied
  /\ evaluation[2].satisfied
  /\ ConditionsOf(RulesOf(body)[2]) # <<>>

\* An operator that compareValues does not know.  A missing operator is
\* not one: the callers replace it by >=.
UnknownOperator(o) == o \notin SupportedOperators \cup {""}

\* C10: with an unknown operator compareValues is false for all operands,
\* a sum or countGroups condition is unsatisfied for every coalition, and a
\* search driven by such a condition returns the empty sequence.
C10_UnknownOperator ==
  /\ \A o \in {x \in Operators : UnknownOperator(x)} :
       \A a, b \in -2..2 : \A d \in 1..2 :
         ~compareValues(o, Whole(a), Rat(b, d))
  /\ Evaluated =>
       \A i \in 1..Len(evaluation) :
         (\E c \in SeqToSet(ConditionsOf(RulesOf(body)[i])) :
            c.type \in KnownTypes /\ UnknownOperator(c.operator))
         => ~evaluation[i].satisfied
  /\ (Found /\ HasDriver(body, ruleId)
        /\ UnknownOperator(DrivingCond(body, ruleId).operator))
       => results = <<>>

\* A search over groups, driven by a condition with an unknown operator.
C10_Witness ==
  /\ Found
  /\ HasDriver(body, ruleId)
  /\ UnknownOperator(DrivingCond(body, ruleId).operator)
  /\ GroupIds(body) \ baselineIds # {}
  /\ calls # <<>>
  /\ results = <<>>

\* The helper f has been called and has returned.
Called(f) == call = f /\ returned

\* Equality of two rationals.
RatEq(a, b) == a.n * b.d = b.n * a.d

\* The sum of metric m over the groups: the numeric values, a missing or
\* non-numeric value counting 0.
TotalOf(gs, m) ==
  LET Value(i) == IF m \in DOMAIN gs[i].metrics /\ gs[i].metrics[m].t = "num"
                  THEN gs[i].metrics[m].n ELSE 0
      Sum[i \in 0..Len(gs)] == IF i = 0 THEN 0 ELSE Sum[i - 1] + Value(i)
  IN Sum[Len(gs)]

\* The precomputed totals the metric definitions hold for metric m.
PrecomputedTotals(ms, m) ==
  {ms[i].total.n : i \in {j \in 1..Len(ms) :
                            ms[j].id = m /\ ms[j].total.t = "num"}}

\* The reference function of resolveThreshold.
ReferenceThreshold(t, ctx) ==
  LET M == IF t.metric # "" THEN t.metric ELSE ctx.metricId
      P == PrecomputedTotals(ctx.metrics, M)
      T == IF P # {} THEN CHOOSE x \in P : TRUE ELSE TotalOf(ctx.groups, M)
      o == IF t.offset.t = "num" THEN t.offset.n ELSE 0
  IN IF t.kind = "fractionOfTotal"
     THEN Rat(t.value.n * T + o * t.value.d, t.value.d)
     ELSE Rat(t.value.n + o * t.value.d, t.value.d)

\* Half of the seats of the example body, whose seats total 100.
HalfOfExample(offset) ==
  /\ args.groups = ExampleGroups
  /\ args.metrics = SeatsOnly
  /\ args.threshold = Threshold("fractionOfTotal", 1, 2, offset, "")

\* C11: resolveThreshold equals the reference function: for kind
\* fractionOfTotal it returns value * T + offset, T being the precomputed
\* total of metric M when its definition has one and else the sum of M over
\* all groups, M being the threshold's own metric if present and else the
\* metric under evaluation; for absolute, percentage and any unknown or
\* missing kind it returns value + offset; a missing offset counts 0.  Half
\* of a total of 100 is 50, and 51 with offset 1.
C11_ResolveThreshold ==
  Called("resolveThreshold") =>
    /\ RatEq(answer, ReferenceThreshold(args.threshold, args))
    /\ HalfOfExample(Absent) => RatEq(answer, Whole(50))
    /\ HalfOfExample(Num(1)) => RatEq(answer, Whole(51))

C11_Witness ==
  /\ Called("resolveThreshold")
  /\ HalfOfExample(Num(1))
  /\ RatEq(answer, Whole(51))

\* C12: getDefaultMetricId returns the id of the metric flagged default
\* (the first flagged one in declaration order), else the id of the first
\* declared metric, else null (here "") when there are no metrics.
C12_DefaultMetric ==
  Called("getDefaultMetricId") =>
    LET ms == args.metrics
        Flagged == {i \in 1..Len(ms) : ms[i].isDefault}
    IN answer = IF Flagged # {}
                THEN ms[CHOOSE i \in Flagged : \A j \in Flagged : i <= j].id
                ELSE IF Len(ms) > 0 THEN ms[1].id ELSE ""

\* Two metrics are flagged, neither is the first declared, and the first
\* of the two is returned.
C12_Witness ==
  /\ Called("getDefaultMetricId")
  /\ Len(args.metrics) = 3
  /\ ~args.metrics[1].isDefault
  /\ args.metrics[2].isDefault
  /\ args.metrics[3].isDefault
  /\ answer = args.metrics[2].id

\* No numeric value of the metric is negative in the groups.
NonNegative(gs, m) ==
  \A i \in 1..Len(gs) :
    (m \in DOMAIN gs[i].metrics /\ gs[i].metrics[m].t = "num")
      => gs[i].metrics[m].n >= 0

\* A sum condition with >= (a missing operator means >=) over such values.
MonotoneCase ==
  /\ Called("evaluateSumCondition")
  /\ args.condition.operator \in {">=", ""}
  /\ NonNegative(args.groups, args.condition.metric)

\* C13: for a sum condition with operator >= and non-negative metric
\* values, enlarging a coalition never turns a satisfied condition into an
\* unsatisfied one: for A contained in B, sumMetric(A) <= sumMetric(B), and
\* if A satisfies the condition then so does B.
C13_Monotone ==
  MonotoneCase => /\ answer.sumA <= answer.sumB
                  /\ answer.satisfiedA => answer.satisfiedB

\* B is strictly larger than A, A satisfies the condition and so does B.
C13_Witness ==
  /\ MonotoneCase
  /\ args.A # args.B
  /\ args.A # {}
  /\ answer.sumA < answer.sumB
  /\ answer.satisfiedA
  /\ answer.satisfiedB

NonBaseline(b, base) ==
  {i \in 1..Len(GroupsOf(b)) : GroupsOf(b)[i].id \notin base}

\* C15: the result is in DFS discovery order, the include branch before the
\* exclude branch: for results X before Y, at the first non-baseline group
\* (in declared order) on whose membership they differ, X contains it and Y
\* does not; so no member set appears twice.
C15_DiscoveryOrder ==
  Found =>
    \A x, y \in 1..Len(results) :
      x < y =>
        LET X == IdsOf(results[x])
            Y == IdsOf(results[y])
            D == {i \in NonBaseline(body, baselineIds) :
                    (GroupsOf(body)[i].id \in X) # (GroupsOf(body)[i].id \in Y)}
        IN /\ D # {}
           /\ LET first == CHOOSE i \in D : \A j \in D : i <= j
              IN /\ GroupsOf(body)[first].id \in X
                 /\ GroupsOf(body)[first].id \notin Y

\* Three or more coalitions found over a non-empty baseline.
C15_Witness ==
  /\ Found
  /\ baselineIds # {}
  /\ Len(results) >= 3

\* The autoindex listing has been fetched.
AutoindexFetched == autoindexUrl \in SeqToSet(fetched)

\* The manifest attempt has ended.
ManifestAttempted == pc \notin {"idle", "start", "manifest"}

\* The manifest attempt failed: a network error, a status that is not OK, a
\* content type that is not JSON, or a body that is not a JSON array.
ManifestFailed(res) ==
  \/ res.error
  \/ ~res.ok
  \/ res.contentType \notin
       {"application/json", "application/json; charset=utf-8"}
  \/ res.body.t # "array"

\* The usable items of a manifest array: strings, and objects with a file.
Usable(item) == item.t = "string" \/ (item.t = "object" /\ item.hasFile)

\* The files of the usable items, in order.
UsableFiles(items) ==
  LET usable == SelectSeq(items, Usable)
  IN [i \in 1..Len(usable) |-> usable[i].file]

\* C16: getConfigIndex consults the autoindex listing only when the
\* manifest attempt fails (network error, non-OK status, non-JSON content
\* type, or a body that is not a JSON array); when the manifest is a valid
\* JSON array its normalized entries are returned and the autoindex is
\* never fetched, even if the array is empty or none of its items is
\* usable.
C16_AutoindexOnlyOnFailure ==
  /\ ~ManifestAttempted => ~AutoindexFetched
  /\ ManifestAttempted =>
       /\ AutoindexFetched <=> ManifestFailed(manifest)
       /\ ~ManifestFailed(manifest) =>
            /\ Len(entries) = Len(UsableFiles(manifest.body.items))
            /\ \A i \in 1..Len(entries) :
                 /\ entries[i].file = UsableFiles(manifest.body.items)[i]
                 /\ entries[i].label # ""

\* A manifest that is a JSON array none of whose items is usable: no
\* entries, no fetch of the autoindex, and onDone([]).
C16_Witness ==
  /\ pc = "done"
  /\ ~ManifestFailed(manifest)
  /\ Len(manifest.body.items) = MaxEntries
  /\ entries = <<>>
  /\ ~AutoindexFetched
  /\ onDone = << <<>> >>

\* The configs fetched with success, in the order of discovery.
Successes ==
  LET ok == {i \in 1..Len(entries) : fetches # <<>> /\ fetches[i] = "fulfilled"}
      Position(i) == Cardinality({j \in ok : j <= i})
  IN [k \in 1..Cardinality(ok) |->
        LET i == CHOOSE i \in ok : Position(i) = k
        IN [file |-> entries[i].file, config |-> [of |-> entries[i].file]]]

\* onDone has been called once, after every config fetch settled, with the
\* configs fetched with success.
CalledBackWell ==
  /\ Len(onDone) = 1
  /\ \A i \in 1..Len(fetches) : fetches[i] # "pending"
  /\ onDone[1] = Successes

\* C17: in every execution of getManifestSlow onDone is eventually invoked
\* exactly once, never before all config fetches have settled, and its
\* argument holds exactly the configs fetched with success, in discovery
\* order; failed fetches never prevent the callback.
C17_OnDoneExactlyOnce ==
  /\ [](onDone # <<>> => CalledBackWell)
  /\ <>(Len(onDone) = 1)

\* Unless discovery itself fails (getConfigIndex rejects), the callback is
\* made, once and well.
OnDoneUnlessDiscoveryFails ==
  /\ [](onDone # <<>> => CalledBackWell)
  /\ <>(pc = "rejected" \/ Len(onDone) = 1)

\* The groups of the body with these ids, in declared order.
InDeclaredOrder(b, ids) ==
  LET Member(g) == g.id \in ids
  IN SelectSeq(GroupsOf(b), Member)

\* C18: at every dfs call and in every returned coalition the included id
\* set contains the baseline; only ids of non-baseline groups are added and
\* removed; each returned coalition is the baseline groups of the body plus
\* the added groups, in declared group order.
C18_BaselineKept ==
  Found =>
    LET Free == GroupIds(body) \ baselineIds
    IN /\ \A i \in 1..Len(calls) :
            /\ baselineIds \subseteq calls[i].currentIds
            /\ (calls[i].currentIds \ baselineIds) \subseteq Free
       /\ \A i \in 1..Len(results) :
            \E added \in SUBSET Free :
              results[i] = InDeclaredOrder(body, baselineIds \cup added)

\* A search over a baseline that is neither empty nor everything, which
\* returned a coalition with an added group.
C18_Witness ==
  /\ Found
  /\ baselineIds # {}
  /\ Len(calls) >= 3
  /\ \E i \in 1..Len(results) : IdsOf(results[i]) # baselineIds

\* The driving condition has >= or > (no operator means >=) and every value
\* of the default metric is a non-negative number, or absent.
AddingOnly(b, id) ==
  /\ HasDriver(b, id)
  /\ DrivingCond(b, id).operator \in {">=", ">", ""}
  /\ \A g \in SeqToSet(GroupsOf(b)) :
       LET v == MetricValue(g, getDefaultMetricId(MetricsOf(b)))
       IN v.t \in {"num", "absent"} /\ v.n >= 0

\* The ids of the non-baseline groups at the 0-based positions index..n-1
\* of the remaining groups.
Later(b, base, index) ==
  LET free == InDeclaredOrder(b, GroupIds(b) \ base)
  IN {free[j].id : j \in (index + 1)..Len(free)}

\* C19: when the operator is >= (or >) and all default-metric values are
\* non-negative, whenever dfs prunes at (index, currentSeats) no coalition
\* obtained by adding any subset of the groups at positions index..n-1
\* satisfies the driving condition, so pruning never removes a minimal
\* winning coalition.
C19_PruningSound ==
  (Found /\ AddingOnly(body, ruleId)) =>
    /\ \A i \in 1..Len(calls) :
         calls[i].pruned =>
           \A extra \in SUBSET Later(body, baselineIds, calls[i].index) :
             ~Satisfies(body, ruleId, calls[i].currentIds \cup extra)
    /\ BruteForce(body, ruleId, baselineIds) \subseteq ResultSets

\* A search that pruned with two or more groups still to decide, and found
\* a coalition elsewhere.
C19_Witness ==
  /\ Found
  /\ AddingOnly(body, ruleId)
  /\ results # <<>>
  /\ \E i \in 1..Len(calls) :
       /\ calls[i].pruned
       /\ Cardinality(Later(body, baselineIds, calls[i].index)) >= 2

\* currentSeats of a dfs call is the sumMetric of the included groups.
SeatsAreSum(dfsCall) ==
  dfsCall.currentSeats =
    sumMetric(InDeclaredOrder(body, dfsCall.currentIds),
              getDefaultMetricId(MetricsOf(body)))

\* C20: at every dfs call currentSeats equals sumMetric of the groups whose
\* id is in the current included set, on the default metric; a group whose
\* value of the default metric is absent or non-numeric contributes 0 to
\* the accumulated sum, as in sumMetric.
C20_SeatsAreSumMetric ==
  Found => \A i \in 1..Len(calls) : SeatsAreSum(calls[i])

\* On bodies whose metric values are numbers or absent currentSeats is the
\* sumMetric of the included groups.
SeatsAreSumOnNumericBodies ==
  (Found /\ NumericBody(body)) => \A i \in 1..Len(calls) : SeatsAreSum(calls[i])

\* The dfs calls of a log stay within a search over k groups: the first
\* call has index 0, a call is followed by a call one level deeper or by a
\* call at a level already entered, no index exceeds k, and at most 2^k
\* calls have index k.
WithinSearchSpace(log, k) ==
  /\ log # <<>> => log[1].index = 0
  /\ \A i \in 2..Len(log) :
       /\ log[i].index >= 1
       /\ log[i].index <= log[i - 1].index + 1
  /\ \A i \in 1..Len(log) : log[i].index <= k
  /\ Cardinality({i \in 1..Len(log) : log[i].index = k}) <= 2^k
  /\ Len(log) <= 2^(k + 1) - 1

\* C21: findMinimalWinningCoalitions always terminates: each recursive dfs
\* call increases index by one, the recursion depth never exceeds k + 1 and
\* at most 2^k full include/exclude assignments are reached, k being the
\* number of groups not in the baseline.
C21_Terminates ==
  [][call = "find" =>
       /\ returned'
       /\ WithinSearchSpace(calls', Cardinality(GroupIds(body) \ baselineIds))]_vars

\* A search over three or more groups outside the baseline that reached
\* more than one full assignment.
C21_Witness ==
  /\ Found
  /\ Cardinality(GroupIds(body) \ baselineIds) >= 3
  /\ Cardinality({i \in 1..Len(calls) :
                    calls[i].index = Cardinality(GroupIds(body) \ baselineIds)})
       >= 2

\* C22: in the viewer, after any sequence of group clicks and rule clicks:
\* a group click toggles exactly that group's membership in the selection;
\* a rule click selects that rule (replacing any other) or clears the
\* selection if it was already selected, so at most one rule is selected;
\* and each summary update invokes findMinimalWinningCoalitions if and only
\* if a rule is selected after that click, with the baseline equal to the
\* current selection and the rule id equal to the selected rule.
C22_ViewerClicks ==
  [][/\ click'.kind = "group" =>
          /\ \A id \in GroupIds(body) :
               (id \in selectedIds') <=>
                 IF id = click'.id THEN id \notin selectedIds
                 ELSE id \in selectedIds
          /\ selectedRuleId' = selectedRuleId
     /\ click'.kind = "rule" =>
          /\ selectedRuleId' =
               IF selectedRuleId = click'.id THEN "" ELSE click'.id
          /\ selectedIds' = selectedIds
     /\ Cardinality(summary'.selectedItems) <= 1
     /\ summary'.search.searched <=> selectedRuleId' # ""
     /\ summary'.search.searched =>
          /\ summary'.search.baselineIds = selectedIds'
          /\ summary'.search.ruleId = selectedRuleId'
          /\ summary'.search.suggested =
               findMinimalWinningCoalitions(
                 body, selectedIds', selectedRuleId').results]_vars

\* With rule r2 selected and a group selected, a click on the selected
\* rule has cleared the selection, and the update made no search.
C22_Witness ==
  /\ call = "renderGoverningBody"
  /\ click = [kind |-> "rule", id |-> "r2"]
  /\ selectedRuleId = ""
  /\ selectedIds # {}
  /\ ~summary.search.searched

====
